---------------------------- MODULE Spec2Model ----------------------------
(***************************************************************************)
(* Model of pkg/lift/execute.go of alpine-lift: the provisioning steps of  *)
(* type Lift.  Each step function is a sequential procedure; every         *)
(* statement that leaves the process (a native command, a service request, *)
(* a file operation, a download, a template render) is one action whose    *)
(* outcome is drawn nondeterministically.                                  *)
(*                                                                         *)
(* One behaviour follows one step function on one host: Init draws the     *)
(* step, the document l.Data (immutable afterwards) and the host's files;  *)
(* the step may then be called up to MaxRuns times on that host.  The      *)
(* steps write disjoint files, so interleaving different steps adds no     *)
(* behaviour of any single step.                                           *)
(*                                                                         *)
(* Text the code computes on (host names, process names, mount points,     *)
(* permission strings, file contents) is a sequence of one-character       *)
(* strings, so that splitting, searching, lower-casing and parsing are     *)
(* computed and not assumed.                                               *)
(***************************************************************************)
EXTENDS Integers, Sequences, FiniteSets, TLC

VARIABLES
    step,     \* the step function this behaviour follows
    Data,     \* l.Data, the provisioning document
    fs,       \* the host's files: path -> [exists, data, mode]
    pc,       \* position inside the running call; "idle" between calls
    calls,    \* what the running (or last) call did outside the process, in order
    ret,      \* "none" while running, then "nil" or "err"
    runs,     \* completed calls of the step on this host
    pre,      \* fs as it was when the running (or last) call started
    loc,      \* the locals of the running call
    clean,    \* every earlier call returned nil with none of its operations failing
    fs0       \* fs as it was before the first call

vars == <<step, Data, fs, pc, calls, ret, runs, pre, loc, clean, fs0>>

---------------------------------------------------------------------------
(* Bounds of the model *)

MaxRuns == 2
MaxPkgs == 2
MaxKeys == 2
MaxFiles == 2
MaxProcs == 2
MaxMounts == 2

\* the bytes the kernel buffers in a pipe nobody reads (65536 on Linux), scaled
PipeBuf == 12

---------------------------------------------------------------------------
(* Text *)

Upper == <<"A","B","C","D","E","F","G","H","I","J","K","L","M",
           "N","O","P","Q","R","S","T","U","V","W","X","Y","Z">>
Lower == <<"a","b","c","d","e","f","g","h","i","j","k","l","m",
           "n","o","p","q","r","s","t","u","v","w","x","y","z">>
Digits == <<"0","1","2","3","4","5","6","7","8","9">>

\* strings.ToLower, on ASCII text
LowerChar(c) ==
    IF \E k \in 1..Len(Upper) : Upper[k] = c
    THEN Lower[CHOOSE k \in 1..Len(Upper) : Upper[k] = c]
    ELSE c

ToLower(s) == [k \in 1..Len(s) |-> LowerChar(s[k])]

\* strings.Index, 1-based; 0 when substr does not occur
Index(s, substr) ==
    IF \E k \in 1..(Len(s) - Len(substr) + 1) : SubSeq(s, k, k + Len(substr) - 1) = substr
    THEN CHOOSE k \in 1..(Len(s) - Len(substr) + 1) :
            /\ SubSeq(s, k, k + Len(substr) - 1) = substr
            /\ \A j \in 1..(k - 1) : SubSeq(s, j, j + Len(substr) - 1) # substr
    ELSE 0

\* strings.Contains
Contains(s, substr) == Index(s, substr) > 0

\* strings.Split for a non-empty separator
RECURSIVE Split(_, _)
Split(s, sep) ==
    LET k == Index(s, sep)
    IN  IF k = 0 THEN <<s>>
        ELSE <<SubSeq(s, 1, k - 1)>> \o Split(SubSeq(s, k + Len(sep), Len(s)), sep)

\* the value of one digit in strconv.ParseUint; 36 for a character that is no digit
DigitVal(c) ==
    IF \E k \in 1..Len(Digits) : Digits[k] = c
    THEN (CHOOSE k \in 1..Len(Digits) : Digits[k] = c) - 1
    ELSE IF \E k \in 1..Len(Lower) : Lower[k] = LowerChar(c)
    THEN (CHOOSE k \in 1..Len(Lower) : Lower[k] = LowerChar(c)) + 9
    ELSE 36

RECURSIVE ParseDigits(_, _, _)
ParseDigits(s, base, acc) ==
    IF s = <<>> THEN acc ELSE ParseDigits(Tail(s), base, acc * base + DigitVal(Head(s)))

\* s without its leading zeros
RECURSIVE Significant(_)
Significant(s) ==
    IF s # <<>> /\ Head(s) = "0" THEN Significant(Tail(s)) ELSE s

\* the bits an octal numeral needs: three per digit, fewer for the leading one
OctalBits(s) ==
    LET t == Significant(s)
    IN  IF t = <<>> THEN 0
        ELSE 3 * (Len(t) - 1) +
             (IF DigitVal(t[1]) >= 4 THEN 3 ELSE IF DigitVal(t[1]) >= 2 THEN 2 ELSE 1)

\* strconv.ParseUint(s, 8, bitSize): [err, val].  A syntax error for an empty
\* string or a character that is no octal digit, a range error for a value
\* of more than bitSize bits.
ParseUint8(s, bitSize) ==
    IF s = <<>> \/ \E k \in 1..Len(s) : DigitVal(s[k]) >= 8
    THEN [err |-> TRUE, val |-> 0]
    ELSE IF OctalBits(s) > bitSize
    THEN [err |-> TRUE, val |-> 0]
    ELSE [err |-> FALSE, val |-> ParseDigits(s, 8, 0)]

\* every sequence over S of length at most n
SeqsUpTo(S, n) == UNION {[1..k -> S] : k \in 0..n}

RECURSIVE Concat(_)
Concat(ss) == IF ss = <<>> THEN <<>> ELSE Head(ss) \o Concat(Tail(ss))

---------------------------------------------------------------------------
(* Well-known paths *)

drpcliBin == "/usr/local/bin/drpcli"
drpcliRCFile == "/etc/init.d/drpcli"
chronyConfFile == "/etc/chrony/chrony.conf"
ssmtpConfFile == "/etc/ssmtp/ssmtp.conf"
hostsFile == "/etc/hosts"
authorizedKeysFile == "/root/.ssh/authorized_keys"
sshdConfigFile == "/etc/ssh/sshd_config"
repositoriesFile == "/etc/apk/repositories"
motdFile == "/etc/motd"
\* what `rc-update add drpcli` creates
drpcliRunlevel == "/etc/runlevels/default/drpcli"

FilePaths == {"/srv/a", "/srv/b", "/srv/c"}

Paths == {drpcliBin, drpcliRCFile, chronyConfFile, ssmtpConfFile, hostsFile,
          authorizedKeysFile, sshdConfigFile, repositoriesFile, motdFile,
          drpcliRunlevel}
         \cup FilePaths

NoFile == [exists |-> FALSE, data |-> <<>>, mode |-> 0]
File(data, mode) == [exists |-> TRUE, data |-> data, mode |-> mode]


---------------------------------------------------------------------------
(* The inputs: texts of the document and of the host *)

web01_example_com == <<"w","e","b","0","1",".","e","x","a","m","p","l","e",".","c","o","m">>
web01 == <<"w","e","b","0","1">>
dot_local == <<".","l","o","c","a","l">>
HostNames == {<<>>, web01_example_com, web01, dot_local}

sdb == <<"/","d","e","v","/","s","d","b">>
ScratchDisks == {<<>>, sdb}
\* what `cat /proc/swap` may print
SwapOutputs == {<<>>, sdb \o <<" ","p","a","r","t","i","t","i","o","n","\n">>}

ProcNames == {<<"D","o","c","k","e","r","d">>, <<"s","s","h","d">>, <<"d","o","c","k","r">>}
MountPoints == {<<"/","v","a","r">>, <<"/">>}

eth0 == <<"a","u","t","o"," ","e","t","h","0","\n">>
\* an interface specification longer than the pipe buffer, whatever the scale
manyIfaces == [k \in 1..(2 * PipeBuf) |-> IF k % 10 = 0 THEN "\n" ELSE "i"]
proxyURL == <<"h","t","t","p",":","/","/","p",":","8","0">>
secret == <<"s","3","c","r","e","t">>
keyA == <<"s","s","h","-","r","s","a"," ","A">>
keyB == <<"s","s","h","-","r","s","a"," ","B">>
SSHKeys == {keyA, keyB}
assetsURL == <<"h","t","t","p",":","/","/","d","r","p">>
motd == <<"h","i">>
hello == <<"h","e","l","l","o">>
fileURL == <<"h","t","t","p",":","/","/","f">>
root == <<"r","o","o","t">>
ns1 == <<"1",".","1",".","1",".","1">>
pool1 == <<"p","o","o","l">>
\* what a download may deliver
blob == <<"E","L","F">>
\* what a file of the host holds before the first call
old == <<"o","l","d","\n">>

---------------------------------------------------------------------------
(* The document: type AlpineData as execute.go reads it *)

NilResolvConf == [isNil |-> TRUE, Domain |-> <<>>, NameServers |-> <<>>]
NilNTP == [isNil |-> TRUE, Pools |-> <<>>, Servers |-> <<>>]
NoPackages == [Repositories |-> <<>>, Update |-> FALSE, Upgrade |-> FALSE,
               Uninstall |-> <<>>, Install |-> <<>>]

\* the zero value of the document: every section absent or empty
ZeroData ==
    [Network |-> [HostName |-> <<>>, InterfaceOpts |-> <<>>, Proxy |-> <<>>,
                  ResolvConf |-> NilResolvConf, NTP |-> NilNTP],
     SSHDConfig |-> [AuthorizedKeys |-> <<>>],
     Packages |-> NoPackages,
     MTA |-> [isNil |-> TRUE],
     ScratchDisk |-> <<>>,
     DRP |-> [AssetsURL |-> <<>>],
     WriteFiles |-> <<>>,
     MOTD |-> <<>>,
     RootPasswd |-> <<>>]

ResolvConfs ==
    {NilResolvConf} \cup
    {[isNil |-> FALSE, Domain |-> <<"l","a","n">>, NameServers |-> n] : n \in {<<>>, <<ns1>>}}

NTPs ==
    {NilNTP} \cup
    {[isNil |-> FALSE, Pools |-> p, Servers |-> s] : p \in {<<>>, <<pool1>>}, s \in {<<>>, <<ns1>>}}

PackageSections ==
    [Repositories : {<<>>, <<<<"m","a","i","n">>>>},
     Update : BOOLEAN, Upgrade : BOOLEAN,
     Uninstall : SeqsUpTo({<<"c">>}, MaxPkgs),
     Install : SeqsUpTo({<<"a">>, <<"b">>}, MaxPkgs)]

\* the descriptors of WriteFiles, without their Path
Kind(permissions, content, url, owner) ==
    [Permissions |-> permissions, Content |-> content, ContentURL |-> url, Owner |-> owner]

FileKinds ==
    {Kind(<<"6","4","4">>, hello, <<>>, <<>>),
     Kind(<<"6","4","4">>, hello, <<>>, root),
     Kind(<<"6","0","0">>, <<>>, fileURL, root),
     Kind(<<"7","5","5">>, <<>>, <<>>, <<>>),
     Kind(<<"r","w">>, hello, <<>>, root),
     Kind(<<"7","7","7","7","7","7","7","7","7","7","7","7">>, <<>>, fileURL, <<>>)}

PathAt == <<"/srv/a", "/srv/b", "/srv/c">>

\* the WriteFiles lists: descriptor k goes to PathAt[k]
WriteFilesLists ==
    {[k \in 1..Len(ks) |->
        [Path |-> PathAt[k], Permissions |-> ks[k].Permissions, Content |-> ks[k].Content,
         ContentURL |-> ks[k].ContentURL, Owner |-> ks[k].Owner]] : ks \in SeqsUpTo(FileKinds, MaxFiles)}

Steps == {"setHostname", "mtaSetup", "diskSetup", "networkSetup", "proxySetup",
          "rootPasswdSetup", "sshdSetup", "dnsSetup", "ntpSetup", "drpSetup",
          "setupAPK", "setMOTD", "createFiles", "alpineSetup"}

\* the documents a step is followed on: the sections it reads vary, the rest is zero
DataFor(s) ==
    CASE s = "setHostname" -> {[ZeroData EXCEPT !.Network.HostName = h] : h \in HostNames}
      [] s = "mtaSetup" -> {[ZeroData EXCEPT !.MTA.isNil = b] : b \in BOOLEAN}
      [] s = "diskSetup" -> {[ZeroData EXCEPT !.ScratchDisk = d] : d \in ScratchDisks}
      [] s = "networkSetup" -> {[ZeroData EXCEPT !.Network.InterfaceOpts = o] : o \in {<<>>, eth0, manyIfaces}}
      [] s = "proxySetup" -> {[ZeroData EXCEPT !.Network.Proxy = p] : p \in {<<>>, proxyURL}}
      [] s = "rootPasswdSetup" -> {[ZeroData EXCEPT !.RootPasswd = p] : p \in {<<>>, secret}}
      [] s = "sshdSetup" ->
            {[ZeroData EXCEPT !.SSHDConfig.AuthorizedKeys = k] : k \in SeqsUpTo(SSHKeys, MaxKeys)}
      [] s = "dnsSetup" -> {[ZeroData EXCEPT !.Network.ResolvConf = r] : r \in ResolvConfs}
      [] s = "ntpSetup" -> {[ZeroData EXCEPT !.Network.NTP = n] : n \in NTPs}
      [] s = "drpSetup" -> {[ZeroData EXCEPT !.DRP.AssetsURL = u] : u \in {<<>>, assetsURL}}
      [] s = "setupAPK" -> {[ZeroData EXCEPT !.Packages = p] : p \in PackageSections}
      [] s = "setMOTD" -> {[ZeroData EXCEPT !.MOTD = m] : m \in {<<>>, motd}}
      [] s = "createFiles" -> {[ZeroData EXCEPT !.WriteFiles = w] : w \in WriteFilesLists}
      [] s = "alpineSetup" -> {[ZeroData EXCEPT !.RootPasswd = p] : p \in {<<>>, secret}}

\* a freshly installed host: only the sshd configuration exists
FreshHost == [p \in Paths |-> IF p = sshdConfigFile THEN File(old, 420) ELSE NoFile]
\* a host on which every file of interest already exists
UsedHost == [p \in Paths |-> File(old, 384)]

---------------------------------------------------------------------------
(* What a call does outside the process *)

\* one external operation and its outcome.  op is the kind of operation:
\*   "exec" exec.Command(...).Run/Output/Start, "service" doService,
\*   "render" generateFileFromTemplate, "patch" parseConfigFile,
\*   "open" openOrCreate/os.OpenFile, "write" WriteString/ioutil.WriteFile,
\*   "truncate" os.Truncate, "mkdir" os.MkdirAll, "download" downloadFile,
\*   "ps" ps.Processes, "mounts" mount.GetMounts, "pipe" a pipe operation
Ev(op, cmd, args, ok) ==
    [op |-> op, cmd |-> cmd, act |-> "", args |-> args, ok |-> ok,
     path |-> "", data |-> <<>>, mode |-> 0, i |-> 0]

\* doService(name, action)
Service(name, action, ok) ==
    [op |-> "service", cmd |-> name, act |-> action, args |-> <<>>, ok |-> ok,
     path |-> "", data |-> <<>>, mode |-> 0, i |-> 0]

FileEv(op, path, data, mode, i, ok) ==
    [op |-> op, cmd |-> "", act |-> "", args |-> <<>>, ok |-> ok,
     path |-> path, data |-> data, mode |-> mode, i |-> i]

NoLocals ==
    [dockerPresent |-> FALSE, procs |-> <<>>, mnts |-> <<>>, i |-> 1,
     data |-> <<>>, perm |-> 0, werr |-> FALSE, started |-> "no", cmd |-> ""]

At(s, l) == step = s /\ pc = l
Emit(e) == calls' = Append(calls, e)
Goto(l) == pc' = l /\ ret' = ret /\ runs' = runs /\ clean' = clean /\ fs0' = fs0
Return(r) ==
    pc' = "idle" /\ ret' = r /\ runs' = runs + 1 /\ clean' = clean /\ fs0' = fs0

Init ==
    /\ step \in Steps
    /\ Data \in DataFor(step)
    /\ fs \in {FreshHost, UsedHost}
    /\ pc = "idle"
    /\ calls = <<>>
    /\ ret = "none"
    /\ runs = 0
    /\ pre = fs
    /\ loc = NoLocals
    /\ clean = TRUE
    /\ fs0 = fs

\* the caller invokes the step
Call ==
    /\ pc = "idle"
    /\ runs < MaxRuns
    /\ pc' = "entry"
    /\ calls' = <<>>
    /\ ret' = "none"
    /\ pre' = fs
    /\ loc' = NoLocals
    /\ clean' = (clean /\ (runs > 0 => ret = "nil" /\ \A k \in 1..Len(calls) : calls[k].ok))
    /\ UNCHANGED <<step, Data, fs, runs, fs0>>

---------------------------------------------------------------------------
(* openOrCreate: opens the file for appending and creates it when absent *)

OpenOrCreate(f) == IF f.exists THEN f ELSE File(<<>>, 420)

\* (*os.File).WriteString on a file opened for appending
AppendTo(f, text) == [f EXCEPT !.data = @ \o text]

---------------------------------------------------------------------------
(* func (l *Lift) setHostname() error *)

\* a plausible slip: the last label of the name taken for the first
ShortHost_LastLabel(h) == Split(h, <<".">>)[Len(Split(h, <<".">>))]

\* strings.Split(l.Data.Network.HostName, ".")[0]
ShortHost(h) == Split(h, <<".">>)[1]

\* fmt.Sprintf("127.0.0.1\t%s %s\n", l.Data.Network.HostName, host)
HostsLine(h, host) ==
    <<"1","2","7",".","0",".","0",".","1","\t">> \o h \o <<" ">> \o host \o <<"\n">>

setHostname_entry ==
    /\ At("setHostname", "entry")
    /\ IF Data.Network.HostName # <<>> THEN Goto("hostname") ELSE Return("nil")
    /\ UNCHANGED <<step, Data, fs, calls, pre, loc>>

setHostname_hostname ==
    /\ At("setHostname", "hostname")
    /\ \E ok \in BOOLEAN :
        /\ Emit(Ev("exec", "hostname", <<ShortHost(Data.Network.HostName)>>, ok))
        /\ IF ok THEN Goto("setup-hostname") ELSE Return("err")
    /\ UNCHANGED <<step, Data, fs, pre, loc>>

setHostname_setup_hostname ==
    /\ At("setHostname", "setup-hostname")
    /\ \E ok \in BOOLEAN :
        /\ Emit(Ev("exec", "setup-hostname -n", <<ShortHost(Data.Network.HostName)>>, ok))
        /\ IF ok THEN Goto("open") ELSE Return("err")
    /\ UNCHANGED <<step, Data, fs, pre, loc>>

setHostname_open ==
    /\ At("setHostname", "open")
    /\ \E ok \in BOOLEAN :
        /\ Emit(FileEv("open", hostsFile, <<>>, 0, 0, ok))
        /\ IF ok
           THEN /\ fs' = [fs EXCEPT ![hostsFile] = OpenOrCreate(@)]
                /\ Goto("write")
           ELSE /\ fs' = fs
                /\ Return("err")
    /\ UNCHANGED <<step, Data, pre, loc>>

setHostname_write ==
    /\ At("setHostname", "write")
    /\ \E ok \in BOOLEAN :
        LET line == HostsLine(Data.Network.HostName, ShortHost(Data.Network.HostName))
        IN  /\ Emit(FileEv("write", hostsFile, line, 0, 0, ok))
            /\ IF ok
               THEN /\ fs' = [fs EXCEPT ![hostsFile] = AppendTo(@, line)]
                    /\ Return("nil")
               ELSE /\ fs' = fs
                    /\ Return("err")
    /\ UNCHANGED <<step, Data, pre, loc>>

---------------------------------------------------------------------------
(* func (l *Lift) setupAPK() error *)

\* the text generateFileFromTemplate renders: fixed by the template and its data
Rendered(template, data) == <<template>> \o Concat(data)

\* a plausible slip: the install loop written before the uninstall loop
APKNext_InstallFirst(l) ==
    CASE l = "render" -> "mv"
      [] l = "mv" -> "update"
      [] l = "update" -> "upgrade"
      [] l = "upgrade" -> "add"
      [] l = "add" -> "del"
      [] l = "del" -> "return-nil"

\* the order of the statements of setupAPK: what follows statement l
APKNext(l) ==
    CASE l = "render" -> "mv"
      [] l = "mv" -> "update"
      [] l = "update" -> "upgrade"
      [] l = "upgrade" -> "del"
      [] l = "del" -> "add"
      [] l = "add" -> "return-nil"

\* control leaves statement l of setupAPK, which did not fail
APKLeave(l) ==
    IF APKNext(l) = "return-nil" THEN Return("nil") ELSE Goto(APKNext(l))

setupAPK_entry ==
    /\ At("setupAPK", "entry")
    /\ \E ok \in BOOLEAN :
        /\ Emit(Ev("render", "repoFile", <<>>, ok))
        /\ IF ok THEN APKLeave("render") ELSE Return("err")
    /\ UNCHANGED <<step, Data, fs, pre, loc>>

setupAPK_mv ==
    /\ At("setupAPK", "mv")
    /\ \E ok \in BOOLEAN :
        /\ Emit(Ev("exec", "mv <rfile> /etc/apk/repositories", <<>>, ok))
        /\ IF ok
           THEN /\ fs' = [fs EXCEPT ![repositoriesFile] =
                            File(Rendered("repoFile", Data.Packages.Repositories), 384)]
                /\ APKLeave("mv")
           ELSE /\ fs' = fs
                /\ Return("err")
    /\ UNCHANGED <<step, Data, pre, loc>>

setupAPK_update ==
    /\ At("setupAPK", "update")
    /\ IF Data.Packages.Update
       THEN \E ok \in BOOLEAN :
                /\ Emit(Ev("exec", "apk update", <<>>, ok))
                /\ IF ok THEN APKLeave("update") ELSE Return("err")
       ELSE calls' = calls /\ APKLeave("update")
    /\ UNCHANGED <<step, Data, fs, pre, loc>>

setupAPK_upgrade ==
    /\ At("setupAPK", "upgrade")
    /\ IF Data.Packages.Upgrade
       THEN \E ok \in BOOLEAN :
                /\ Emit(Ev("exec", "apk upgrade", <<>>, ok))
                /\ IF ok THEN APKLeave("upgrade") ELSE Return("err")
       ELSE calls' = calls /\ APKLeave("upgrade")
    /\ UNCHANGED <<step, Data, fs, pre, loc>>

\* for _, p := range l.Data.Packages.Uninstall
setupAPK_del ==
    /\ At("setupAPK", "del")
    /\ IF loc.i <= Len(Data.Packages.Uninstall)
       THEN \E ok \in BOOLEAN :
                /\ Emit(Ev("exec", "apk del", <<Data.Packages.Uninstall[loc.i]>>, ok))
                /\ IF ok
                   THEN Goto("del") /\ loc' = [loc EXCEPT !.i = @ + 1]
                   ELSE Return("err") /\ loc' = loc
       ELSE calls' = calls /\ APKLeave("del") /\ loc' = [loc EXCEPT !.i = 1]
    /\ UNCHANGED <<step, Data, fs, pre>>

\* for _, p := range l.Data.Packages.Install
setupAPK_add ==
    /\ At("setupAPK", "add")
    /\ IF loc.i <= Len(Data.Packages.Install)
       THEN \E ok \in BOOLEAN :
                /\ Emit(Ev("exec", "apk add", <<Data.Packages.Install[loc.i]>>, ok))
                /\ IF ok
                   THEN Goto("add") /\ loc' = [loc EXCEPT !.i = @ + 1]
                   ELSE Return("err") /\ loc' = loc
       ELSE calls' = calls /\ APKLeave("add") /\ loc' = [loc EXCEPT !.i = 1]
    /\ UNCHANGED <<step, Data, fs, pre>>

---------------------------------------------------------------------------
(* func (l *Lift) mtaSetup() error *)

mtaSetup_entry ==
    /\ At("mtaSetup", "entry")
    /\ IF Data.MTA.isNil THEN Return("nil") ELSE Goto("apk-add")
    /\ UNCHANGED <<step, Data, fs, calls, pre, loc>>

mtaSetup_apk_add ==
    /\ At("mtaSetup", "apk-add")
    /\ \E ok \in BOOLEAN :
        /\ Emit(Ev("exec", "apk add ssmtp", <<>>, ok))
        /\ IF ok THEN Goto("render") ELSE Return("err")
    /\ UNCHANGED <<step, Data, fs, pre, loc>>

\* a plausible slip: the error of generateFileFromTemplate dropped
mtaSetup_render_ErrorDropped ==
    /\ At("mtaSetup", "render")
    /\ \E ok \in BOOLEAN : Emit(Ev("render", "ssmtpConf", <<>>, ok))
    /\ Goto("mv")
    /\ UNCHANGED <<step, Data, fs, pre, loc>>

mtaSetup_render ==
    /\ At("mtaSetup", "render")
    /\ \E ok \in BOOLEAN :
        /\ Emit(Ev("render", "ssmtpConf", <<>>, ok))
        /\ IF ok THEN Goto("mv") ELSE Return("err")
    /\ UNCHANGED <<step, Data, fs, pre, loc>>

mtaSetup_mv ==
    /\ At("mtaSetup", "mv")
    /\ \E ok \in BOOLEAN :
        /\ Emit(Ev("exec", "mv <ssmtp> /etc/ssmtp/ssmtp.conf", <<>>, ok))
        /\ IF ok
           THEN /\ fs' = [fs EXCEPT ![ssmtpConfFile] = File(Rendered("ssmtpConf", <<>>), 384)]
                /\ Return("nil")
           ELSE /\ fs' = fs
                /\ Return("err")
    /\ UNCHANGED <<step, Data, pre, loc>>

---------------------------------------------------------------------------
(* func (l *Lift) diskSetup() error *)

ProcLists == SeqsUpTo(ProcNames, MaxProcs)
MountLists == SeqsUpTo(MountPoints, MaxMounts)

docker == <<"d","o","c","k","e","r">>

\* a plausible slip: the flag set for every process, outside the test
DockerPresent_AnyProcess(procs) == Len(procs) > 0

\* the loop over procs: dockerPresent after it
DockerPresent(procs) ==
    \E k \in 1..Len(procs) : Contains(ToLower(procs[k]), docker)

\* the test of the loop over mnts
UnderVar(mnt) == Contains(mnt, <<"/","v","a","r">>)

diskSetup_entry ==
    /\ At("diskSetup", "entry")
    /\ IF Data.ScratchDisk = <<>> THEN Return("nil") ELSE Goto("ps")
    /\ UNCHANGED <<step, Data, fs, calls, pre, loc>>

diskSetup_ps ==
    /\ At("diskSetup", "ps")
    /\ \/ /\ Emit(Ev("ps", "ps.Processes", <<>>, FALSE))
          /\ Return("err")
          /\ loc' = loc
       \/ \E procs \in ProcLists :
          /\ Emit(Ev("ps", "ps.Processes", <<>>, TRUE))
          /\ loc' = [loc EXCEPT !.procs = procs, !.dockerPresent = DockerPresent(procs)]
          /\ Goto("stop")
    /\ UNCHANGED <<step, Data, fs, pre>>

\* a plausible slip: the error of doService("docker", STOP) returned
diskSetup_stop_Fatal ==
    /\ At("diskSetup", "stop")
    /\ IF loc.dockerPresent
       THEN \E ok \in BOOLEAN :
                /\ Emit(Service("docker", "STOP", ok))
                /\ IF ok THEN Goto("mounts") ELSE Return("err")
       ELSE calls' = calls /\ Goto("mounts")
    /\ UNCHANGED <<step, Data, fs, pre, loc>>

diskSetup_stop ==
    /\ At("diskSetup", "stop")
    /\ IF loc.dockerPresent
       THEN \E ok \in BOOLEAN : Emit(Service("docker", "STOP", ok))
       ELSE calls' = calls
    /\ Goto("mounts")
    /\ UNCHANGED <<step, Data, fs, pre, loc>>

diskSetup_mounts ==
    /\ At("diskSetup", "mounts")
    /\ \/ /\ Emit(Ev("mounts", "mount.GetMounts", <<>>, FALSE))
          /\ loc' = [loc EXCEPT !.mnts = <<>>, !.i = 1]
       \/ \E mnts \in MountLists :
          /\ Emit(Ev("mounts", "mount.GetMounts", <<>>, TRUE))
          /\ loc' = [loc EXCEPT !.mnts = mnts, !.i = 1]
    /\ Goto("umount")
    /\ UNCHANGED <<step, Data, fs, pre>>

\* for _, mnt := range mnts
diskSetup_umount ==
    /\ At("diskSetup", "umount")
    /\ IF loc.i <= Len(loc.mnts)
       THEN /\ IF UnderVar(loc.mnts[loc.i])
               THEN \E ok \in BOOLEAN : Emit(Ev("exec", "umount", <<loc.mnts[loc.i]>>, ok))
               ELSE calls' = calls
            /\ loc' = [loc EXCEPT !.i = @ + 1]
            /\ Goto("umount")
       ELSE /\ calls' = calls
            /\ loc' = loc
            /\ Goto("setup-disk")
    /\ UNCHANGED <<step, Data, fs, pre>>

\* where diskSetup goes when setup-disk has run
AfterSetupDisk(ok) == IF ok THEN "start" ELSE "return-err"

diskSetup_setup_disk ==
    /\ At("diskSetup", "setup-disk")
    /\ \E ok \in BOOLEAN :
        /\ Emit(Ev("exec", "setup-disk -q -m data", <<Data.ScratchDisk>>, ok))
        /\ IF AfterSetupDisk(ok) = "return-err" THEN Return("err") ELSE Goto(AfterSetupDisk(ok))
    /\ UNCHANGED <<step, Data, fs, pre, loc>>

diskSetup_start ==
    /\ At("diskSetup", "start")
    /\ IF loc.dockerPresent
       THEN \E ok \in BOOLEAN : Emit(Service("docker", "START", ok))
       ELSE calls' = calls
    /\ Goto("swap")
    /\ UNCHANGED <<step, Data, fs, pre, loc>>

diskSetup_swap ==
    /\ At("diskSetup", "swap")
    /\ \/ /\ Emit(Ev("exec", "cat /proc/swap", <<>>, FALSE))
          /\ Return("nil")
       \/ \E out \in SwapOutputs :
          /\ Emit([Ev("exec", "cat /proc/swap", <<>>, TRUE) EXCEPT !.data = out])
          /\ IF ~Contains(out, Data.ScratchDisk) THEN Goto("swapon") ELSE Return("nil")
    /\ UNCHANGED <<step, Data, fs, pre, loc>>

diskSetup_swapon ==
    /\ At("diskSetup", "swapon")
    /\ \E ok \in BOOLEAN : Emit(Ev("exec", "swapon -a", <<>>, ok))
    /\ Return("nil")
    /\ UNCHANGED <<step, Data, fs, pre, loc>>

---------------------------------------------------------------------------
(* func (l *Lift) networkSetup() error *)

networkSetup_entry ==
    /\ At("networkSetup", "entry")
    /\ IF Data.Network.InterfaceOpts = <<>>
       THEN /\ loc' = [loc EXCEPT !.cmd = "setup-interfaces -a"]
            /\ Goto("run")
       ELSE /\ loc' = [loc EXCEPT !.cmd = "setup-interfaces -i"]
            /\ Goto("pipe")
    /\ UNCHANGED <<step, Data, fs, calls, pre>>

networkSetup_pipe ==
    /\ At("networkSetup", "pipe")
    /\ \E ok \in BOOLEAN :
        /\ Emit(Ev("pipe", "StdinPipe", <<>>, ok))
        /\ IF ok THEN Goto("write") ELSE Return("err")
    /\ UNCHANGED <<step, Data, fs, pre, loc>>

\* io.WriteString(stdin, l.Data.Network.InterfaceOpts), its error dropped.
\* The process is not started yet and nothing reads the pipe: the write
\* returns when the kernel has buffered all the bytes, and blocks for good
\* when they do not fit.
networkSetup_write ==
    /\ At("networkSetup", "write")
    /\ Len(Data.Network.InterfaceOpts) <= PipeBuf
    /\ \E ok \in BOOLEAN :
        Emit([Ev("pipe", "WriteString", <<>>, ok) EXCEPT !.data = Data.Network.InterfaceOpts])
    /\ Goto("close")
    /\ UNCHANGED <<step, Data, fs, pre, loc>>

networkSetup_close ==
    /\ At("networkSetup", "close")
    /\ Emit(Ev("pipe", "Close", <<>>, TRUE))
    /\ Goto("run")
    /\ UNCHANGED <<step, Data, fs, pre, loc>>

networkSetup_run ==
    /\ At("networkSetup", "run")
    /\ \E ok \in BOOLEAN :
        /\ Emit(Ev("exec", loc.cmd, <<>>, ok))
        /\ IF ok THEN Goto("restart") ELSE Return("err")
    /\ UNCHANGED <<step, Data, fs, pre, loc>>

networkSetup_restart ==
    /\ At("networkSetup", "restart")
    /\ \E ok \in BOOLEAN : Emit(Service("networking", "RESTART", ok))
    /\ Return("nil")
    /\ UNCHANGED <<step, Data, fs, pre, loc>>

---------------------------------------------------------------------------
(* func (l *Lift) proxySetup() error *)

\* a plausible slip: the test of l.Data.Network.Proxy left out
proxySetup_entry_Unguarded ==
    /\ At("proxySetup", "entry")
    /\ Goto("setup-proxy")
    /\ UNCHANGED <<step, Data, fs, calls, pre, loc>>

proxySetup_entry ==
    /\ At("proxySetup", "entry")
    /\ IF Data.Network.Proxy # <<>> THEN Goto("setup-proxy") ELSE Return("nil")
    /\ UNCHANGED <<step, Data, fs, calls, pre, loc>>

proxySetup_setup_proxy ==
    /\ At("proxySetup", "setup-proxy")
    /\ \E ok \in BOOLEAN :
        /\ Emit(Ev("exec", "setup-proxy", <<Data.Network.Proxy>>, ok))
        /\ IF ok THEN Return("nil") ELSE Return("err")
    /\ UNCHANGED <<step, Data, fs, pre, loc>>

---------------------------------------------------------------------------
(* func (l *Lift) rootPasswdSetup() error *)

\* []byte(fmt.Sprintf("root:%s\n", l.Data.RootPasswd))
ChpasswdLine(passwd) == <<"r","o","o","t",":">> \o passwd \o <<"\n">>

rootPasswdSetup_entry ==
    /\ At("rootPasswdSetup", "entry")
    /\ IF Data.RootPasswd # <<>> THEN Goto("start") ELSE Return("nil")
    /\ UNCHANGED <<step, Data, fs, calls, pre, loc>>

\* chpasswdCmd.Start(), its error dropped.  The process starts and reads its
\* stdin ("reads"), starts and exits without reading ("exits"), or does not
\* start ("failed"); only a started command copies from the pipe's reader.
rootPasswdSetup_start ==
    /\ At("rootPasswdSetup", "start")
    /\ \E o \in {"reads", "exits", "failed"} :
        /\ Emit(Ev("exec", "chpasswd (Start)", <<>>, o # "failed"))
        /\ loc' = [loc EXCEPT !.started = o]
    /\ Goto("write")
    /\ UNCHANGED <<step, Data, fs, pre>>

\* writer.Write(s) on the io.Pipe: returns once a reader has taken the bytes
rootPasswdSetup_write ==
    /\ At("rootPasswdSetup", "write")
    /\ loc.started # "failed"
    /\ Emit([Ev("pipe", "Write", <<>>, TRUE) EXCEPT !.data = ChpasswdLine(Data.RootPasswd)])
    /\ Goto("close")
    /\ UNCHANGED <<step, Data, fs, pre, loc>>

\* a plausible slip: the function returns without waiting for chpasswd
rootPasswdSetup_close_NoWait ==
    /\ At("rootPasswdSetup", "close")
    /\ Emit(Ev("pipe", "Close", <<>>, TRUE))
    /\ Return("nil")
    /\ UNCHANGED <<step, Data, fs, pre, loc>>

rootPasswdSetup_close ==
    /\ At("rootPasswdSetup", "close")
    /\ Emit(Ev("pipe", "Close", <<>>, TRUE))
    /\ Goto("wait")
    /\ UNCHANGED <<step, Data, fs, pre, loc>>

rootPasswdSetup_wait ==
    /\ At("rootPasswdSetup", "wait")
    /\ \E ok \in BOOLEAN :
        /\ Emit(Ev("exec", "chpasswd (Wait)", <<>>, ok))
        /\ IF ok THEN Return("nil") ELSE Return("err")
    /\ UNCHANGED <<step, Data, fs, pre, loc>>

---------------------------------------------------------------------------
(* func (l *Lift) sshdSetup() error, and addSSHKeys *)

\* fmt.Sprintf("%s\n", key)
KeyLine(key) == key \o <<"\n">>

\* the guard of addSSHKeys
HasSSHKeys == Len(Data.SSHDConfig.AuthorizedKeys) > 0

\* a plausible slip: the error of parseConfigFile dropped
AfterPatch_ErrorDropped(ok) == IF HasSSHKeys THEN "open" ELSE "restart"

\* where sshdSetup goes when parseConfigFile has returned
AfterPatch(ok) ==
    IF ~ok THEN "return-err" ELSE IF HasSSHKeys THEN "open" ELSE "restart"

\* parseConfigFile("/etc/ssh/sshd_config", " ", l.getSSHDKVMap()); what it
\* makes of the file's text is not part of execute.go and is left untouched
sshdSetup_entry ==
    /\ At("sshdSetup", "entry")
    /\ \E ok \in BOOLEAN :
        /\ Emit(FileEv("patch", sshdConfigFile, <<>>, 0, 0, ok))
        /\ IF AfterPatch(ok) = "return-err" THEN Return("err") ELSE Goto(AfterPatch(ok))
    /\ UNCHANGED <<step, Data, fs, pre, loc>>

addSSHKeys_open ==
    /\ At("sshdSetup", "open")
    /\ \E ok \in BOOLEAN :
        /\ Emit(FileEv("open", authorizedKeysFile, <<>>, 0, 0, ok))
        /\ IF ok
           THEN /\ fs' = [fs EXCEPT ![authorizedKeysFile] = OpenOrCreate(@)]
                /\ Goto("key")
           ELSE /\ fs' = fs
                /\ Return("err")
    /\ UNCHANGED <<step, Data, pre, loc>>

\* for _, key := range l.Data.SSHDConfig.AuthorizedKeys
addSSHKeys_key ==
    /\ At("sshdSetup", "key")
    /\ IF loc.i <= Len(Data.SSHDConfig.AuthorizedKeys)
       THEN \E ok \in BOOLEAN :
            LET line == KeyLine(Data.SSHDConfig.AuthorizedKeys[loc.i])
            IN  /\ Emit(FileEv("write", authorizedKeysFile, line, 0, loc.i, ok))
                /\ IF ok
                   THEN /\ fs' = [fs EXCEPT ![authorizedKeysFile] = AppendTo(@, line)]
                        /\ loc' = [loc EXCEPT !.i = @ + 1]
                        /\ Goto("key")
                   ELSE /\ fs' = fs
                        /\ loc' = loc
                        /\ Return("err")
       ELSE /\ calls' = calls
            /\ fs' = fs
            /\ loc' = loc
            /\ Goto("restart")
    /\ UNCHANGED <<step, Data, pre>>

\* what sshdSetup returns when doService("sshd", RESTART) has returned
RestartResult(ok) == IF ok THEN "nil" ELSE "err"

sshdSetup_restart ==
    /\ At("sshdSetup", "restart")
    /\ \E ok \in BOOLEAN :
        /\ Emit(Service("sshd", "RESTART", ok))
        /\ Return(RestartResult(ok))
    /\ UNCHANGED <<step, Data, fs, pre, loc>>

---------------------------------------------------------------------------
(* func (l *Lift) dnsSetup() error *)

\* strings.Join
RECURSIVE Join(_, _)
Join(ss, sep) ==
    IF ss = <<>> THEN <<>>
    ELSE IF Len(ss) = 1 THEN ss[1]
    ELSE ss[1] \o sep \o Join(Tail(ss), sep)

dnsSetup_entry ==
    /\ At("dnsSetup", "entry")
    /\ IF ~Data.Network.ResolvConf.isNil /\ Len(Data.Network.ResolvConf.NameServers) > 0
       THEN Goto("setup-dns")
       ELSE Return("nil")
    /\ UNCHANGED <<step, Data, fs, calls, pre, loc>>

dnsSetup_setup_dns ==
    /\ At("dnsSetup", "setup-dns")
    /\ \E ok \in BOOLEAN :
        /\ Emit(Ev("exec", "setup-dns -d <Domain> -n <NameServers>",
                   <<Data.Network.ResolvConf.Domain,
                     Join(Data.Network.ResolvConf.NameServers, <<" ">>)>>, ok))
        /\ IF ok THEN Return("nil") ELSE Return("err")
    /\ UNCHANGED <<step, Data, fs, pre, loc>>

---------------------------------------------------------------------------
(* func (l *Lift) ntpSetup() error *)

ntpSetup_entry ==
    /\ At("ntpSetup", "entry")
    /\ IF /\ ~Data.Network.NTP.isNil
          /\ \/ Len(Data.Network.NTP.Pools) > 0
             \/ Len(Data.Network.NTP.Servers) > 0
       THEN Goto("setup-ntp")
       ELSE Return("nil")
    /\ UNCHANGED <<step, Data, fs, calls, pre, loc>>

ntpSetup_setup_ntp ==
    /\ At("ntpSetup", "setup-ntp")
    /\ \E ok \in BOOLEAN :
        /\ Emit(Ev("exec", "setup-ntp -c chrony", <<>>, ok))
        /\ IF ok THEN Goto("render") ELSE Return("err")
    /\ UNCHANGED <<step, Data, fs, pre, loc>>

ntpSetup_render ==
    /\ At("ntpSetup", "render")
    /\ \E ok \in BOOLEAN :
        /\ Emit(Ev("render", "chronyConf", <<>>, ok))
        /\ IF ok THEN Goto("mv") ELSE Return("err")
    /\ UNCHANGED <<step, Data, fs, pre, loc>>

ntpSetup_mv ==
    /\ At("ntpSetup", "mv")
    /\ \E ok \in BOOLEAN :
        /\ Emit(Ev("exec", "mv <chrony> /etc/chrony/chrony.conf", <<>>, ok))
        /\ IF ok
           THEN /\ fs' = [fs EXCEPT ![chronyConfFile] =
                            File(Rendered("chronyConf",
                                          Data.Network.NTP.Pools \o Data.Network.NTP.Servers), 384)]
                /\ Goto("restart")
           ELSE /\ fs' = fs
                /\ Return("err")
    /\ UNCHANGED <<step, Data, pre, loc>>

ntpSetup_restart ==
    /\ At("ntpSetup", "restart")
    /\ \E ok \in BOOLEAN : Emit(Service("chronyd", "RESTART", ok))
    /\ Return("nil")
    /\ UNCHANGED <<step, Data, fs, pre, loc>>

---------------------------------------------------------------------------
(* ioutil.WriteFile(path, data, perm): creates the file with perm when it   *)
(* is absent, truncates it and keeps its mode otherwise                     *)

WriteFile(f, data, perm) == File(data, IF f.exists THEN f.mode ELSE perm)

\* a WriteFile that opened the file and failed before any byte was written
WriteFileCut(f, perm) == File(<<>>, IF f.exists THEN f.mode ELSE perm)

---------------------------------------------------------------------------
(* func (l *Lift) drpSetup() error *)

\* fmt.Sprintf("%s/drpcli.amd64.linux", l.Data.DRP.AssetsURL)
DrpURL(assets) ==
    assets \o <<"/","d","r","p","c","l","i",".","a","m","d","6","4",".","l","i","n","u","x">>

\* os.Stat(drpcliBin) ... os.IsNotExist(err)
drpSetup_entry ==
    /\ At("drpSetup", "entry")
    /\ IF ~fs[drpcliBin].exists THEN Goto("download") ELSE Goto("stat-rc")
    /\ UNCHANGED <<step, Data, fs, calls, pre, loc>>

drpSetup_download ==
    /\ At("drpSetup", "download")
    /\ \E ok \in BOOLEAN :
        /\ Emit(Ev("download", "downloadFile", <<DrpURL(Data.DRP.AssetsURL)>>, ok))
        /\ IF ok
           THEN loc' = [loc EXCEPT !.data = blob] /\ Goto("save")
           ELSE loc' = loc /\ Return("err")
    /\ UNCHANGED <<step, Data, fs, pre>>

drpSetup_save ==
    /\ At("drpSetup", "save")
    /\ \/ /\ Emit(FileEv("write", drpcliBin, loc.data, 493, 0, TRUE))
          /\ fs' = [fs EXCEPT ![drpcliBin] = WriteFile(@, loc.data, 493)]
          /\ Goto("stat-rc")
       \/ /\ Emit(FileEv("write", drpcliBin, loc.data, 493, 0, FALSE))
          /\ \/ fs' = fs
             \/ fs' = [fs EXCEPT ![drpcliBin] = WriteFileCut(@, 493)]
          /\ Return("err")
    /\ UNCHANGED <<step, Data, pre, loc>>

\* os.Stat(drpcliRCFile) ... os.IsNotExist(err)
drpSetup_stat_rc ==
    /\ At("drpSetup", "stat-rc")
    /\ IF ~fs[drpcliRCFile].exists THEN Goto("render") ELSE Goto("start")
    /\ UNCHANGED <<step, Data, fs, calls, pre, loc>>

drpSetup_render ==
    /\ At("drpSetup", "render")
    /\ \E ok \in BOOLEAN :
        /\ Emit(Ev("render", "drpcliInit", <<>>, ok))
        /\ IF ok THEN Goto("install") ELSE Return("err")
    /\ UNCHANGED <<step, Data, fs, pre, loc>>

\* exec.Command("mv", rcfile, drpcliRCFile) in the first definition of
\* drpSetup, exec.Command("cp", rcfile, drpcliRCFile) in the second
drpSetup_install ==
    /\ At("drpSetup", "install")
    /\ \E c \in {"mv <rcfile> /etc/init.d/drpcli", "cp <rcfile> /etc/init.d/drpcli"} :
       \E ok \in BOOLEAN :
        /\ Emit(Ev("exec", c, <<>>, ok))
        /\ IF ok
           THEN /\ fs' = [fs EXCEPT ![drpcliRCFile] =
                            File(Rendered("drpcliInit", <<Data.DRP.AssetsURL>>), 384)]
                /\ Goto("chmod")
           ELSE /\ fs' = fs
                /\ Return("err")
    /\ UNCHANGED <<step, Data, pre, loc>>

drpSetup_chmod ==
    /\ At("drpSetup", "chmod")
    /\ \E ok \in BOOLEAN :
        /\ Emit(Ev("exec", "chmod +x /etc/init.d/drpcli", <<>>, ok))
        /\ IF ok
           THEN /\ fs' = [fs EXCEPT ![drpcliRCFile].mode = 457]
                /\ Goto("rc-update")
           ELSE /\ fs' = fs
                /\ Return("err")
    /\ UNCHANGED <<step, Data, pre, loc>>

drpSetup_rc_update ==
    /\ At("drpSetup", "rc-update")
    /\ \E ok \in BOOLEAN :
        /\ Emit(Ev("exec", "rc-update add drpcli", <<>>, ok))
        /\ IF ok
           THEN /\ fs' = [fs EXCEPT ![drpcliRunlevel] = File(<<>>, 511)]
                /\ Goto("start")
           ELSE /\ fs' = fs
                /\ Return("err")
    /\ UNCHANGED <<step, Data, pre, loc>>

drpSetup_start ==
    /\ At("drpSetup", "start")
    /\ \E ok \in BOOLEAN : Emit(Service("drpcli", "START", ok))
    /\ Return("nil")
    /\ UNCHANGED <<step, Data, fs, pre, loc>>

---------------------------------------------------------------------------
(* func (l *Lift) setMOTD() error *)

setMOTD_entry ==
    /\ At("setMOTD", "entry")
    /\ IF Data.MOTD # <<>> THEN Goto("truncate") ELSE Return("nil")
    /\ UNCHANGED <<step, Data, fs, calls, pre, loc>>

\* os.Truncate("/etc/motd", 0): fails when the file does not exist
setMOTD_truncate ==
    /\ At("setMOTD", "truncate")
    /\ \E ok \in (IF fs[motdFile].exists THEN BOOLEAN ELSE {FALSE}) :
        /\ Emit(FileEv("truncate", motdFile, <<>>, 0, 0, ok))
        /\ IF ok
           THEN /\ fs' = [fs EXCEPT ![motdFile].data = <<>>]
                /\ Goto("open")
           ELSE /\ fs' = fs
                /\ Return("err")
    /\ UNCHANGED <<step, Data, pre, loc>>

\* os.OpenFile("/etc/motd", os.O_RDWR|os.O_EXCL, 0600)
setMOTD_open ==
    /\ At("setMOTD", "open")
    /\ \E ok \in BOOLEAN :
        /\ Emit(FileEv("open", motdFile, <<>>, 384, 0, ok))
        /\ IF ok THEN Goto("write") ELSE Return("err")
    /\ UNCHANGED <<step, Data, fs, pre, loc>>

\* file.WriteString(fmt.Sprintf("%s\n", l.Data.MOTD)), at offset 0 of the emptied file
setMOTD_write ==
    /\ At("setMOTD", "write")
    /\ \E ok \in BOOLEAN :
        LET line == Data.MOTD \o <<"\n">>
        IN  /\ Emit(FileEv("write", motdFile, line, 0, 0, ok))
            /\ IF ok
               THEN /\ fs' = [fs EXCEPT ![motdFile].data = line \o SubSeq(@, Len(line) + 1, Len(@))]
                    /\ Return("nil")
               ELSE /\ fs' = fs
                    /\ Return("err")
    /\ UNCHANGED <<step, Data, pre, loc>>

---------------------------------------------------------------------------
(* func (l *Lift) createFiles() error *)

\* the descriptor the loop is at
wf == Data.WriteFiles[loc.i]

\* strconv.ParseUint(wf.Permissions, 8, 32)
ParsePerm(permissions) == ParseUint8(permissions, 32)

\* the head of `for _, wf := range l.Data.WriteFiles`, to the permissions check
createFiles_entry ==
    /\ At("createFiles", "entry")
    /\ IF loc.i > Len(Data.WriteFiles)
       THEN loc' = loc /\ Return("nil")
       ELSE IF ParsePerm(wf.Permissions).err
       THEN loc' = loc /\ Return("err")
       ELSE /\ loc' = [loc EXCEPT !.perm = ParsePerm(wf.Permissions).val,
                                  !.data = <<>>, !.werr = FALSE]
            /\ Goto("mkdir")
    /\ UNCHANGED <<step, Data, fs, calls, pre>>

\* os.MkdirAll(filepath.Dir(wf.Path), 0711), then the choice of the content
createFiles_mkdir ==
    /\ At("createFiles", "mkdir")
    /\ \E ok \in BOOLEAN :
        /\ Emit(FileEv("mkdir", wf.Path, <<>>, 457, loc.i, ok))
        /\ IF ~ok
           THEN loc' = loc /\ Return("err")
           ELSE IF wf.Content # <<>>
           THEN loc' = [loc EXCEPT !.data = wf.Content] /\ Goto("write")
           ELSE IF wf.ContentURL # <<>>
           THEN loc' = loc /\ Goto("download")
           ELSE loc' = loc /\ Goto("write")
    /\ UNCHANGED <<step, Data, fs, pre>>

\* a plausible slip: a failed download goes on to write an empty file
createFiles_download_ErrorDropped ==
    /\ At("createFiles", "download")
    /\ \E ok \in BOOLEAN :
        /\ Emit([Ev("download", "downloadFile", <<wf.ContentURL>>, ok) EXCEPT !.i = loc.i])
        /\ loc' = [loc EXCEPT !.data = IF ok THEN blob ELSE <<>>]
        /\ Goto("write")
    /\ UNCHANGED <<step, Data, fs, pre>>

createFiles_download ==
    /\ At("createFiles", "download")
    /\ \E ok \in BOOLEAN :
        /\ Emit([Ev("download", "downloadFile", <<wf.ContentURL>>, ok) EXCEPT !.i = loc.i])
        /\ IF ok
           THEN loc' = [loc EXCEPT !.data = blob] /\ Goto("write")
           ELSE loc' = loc /\ Return("err")
    /\ UNCHANGED <<step, Data, fs, pre>>

\* where createFiles goes when ioutil.WriteFile has returned; its error is only logged
AfterWrite(ok, owner) == IF owner # <<>> THEN "chown" ELSE "entry"

createFiles_write ==
    /\ At("createFiles", "write")
    /\ \E ok \in BOOLEAN :
        /\ Emit(FileEv("write", wf.Path, loc.data, loc.perm, loc.i, ok))
        /\ IF ok
           THEN fs' = [fs EXCEPT ![wf.Path] = WriteFile(@, loc.data, loc.perm)]
           ELSE \/ fs' = fs
                \/ fs' = [fs EXCEPT ![wf.Path] = WriteFileCut(@, loc.perm)]
        /\ IF AfterWrite(ok, wf.Owner) = "return-err"
           THEN loc' = [loc EXCEPT !.werr = ~ok] /\ Return("err")
           ELSE IF AfterWrite(ok, wf.Owner) = "chown"
           THEN loc' = [loc EXCEPT !.werr = ~ok] /\ Goto("chown")
           ELSE loc' = [loc EXCEPT !.werr = ~ok, !.i = @ + 1] /\ Goto("entry")
    /\ UNCHANGED <<step, Data, pre>>

\* what createFiles does when chown has returned
AfterChown(ok) == IF ok THEN "entry" ELSE "return-err"

createFiles_chown ==
    /\ At("createFiles", "chown")
    /\ \E ok \in BOOLEAN :
        /\ Emit([Ev("exec", "chown", <<wf.Owner>>, ok) EXCEPT !.path = wf.Path, !.i = loc.i])
        /\ IF AfterChown(ok) = "return-err"
           THEN loc' = loc /\ Return("err")
           ELSE loc' = [loc EXCEPT !.i = @ + 1] /\ Goto("entry")
    /\ UNCHANGED <<step, Data, fs, pre>>

---------------------------------------------------------------------------
(* func (l *Lift) alpineSetup() error *)

\* []byte(fmt.Sprintf("%s\n%s\n", l.Data.RootPasswd, l.Data.RootPasswd))
SetupAlpineInput(passwd) == passwd \o <<"\n">> \o passwd \o <<"\n">>

alpineSetup_entry ==
    /\ At("alpineSetup", "entry")
    /\ \E ok \in BOOLEAN :
        /\ Emit(Ev("render", "answerFile", <<>>, ok))
        /\ IF ok THEN Goto("run") ELSE Return("err")
    /\ UNCHANGED <<step, Data, fs, pre, loc>>

\* a plausible slip: the exit status of setup-alpine returned
alpineSetup_run_Fatal ==
    /\ At("alpineSetup", "run")
    /\ \E ok \in BOOLEAN :
        /\ Emit([Ev("exec", "setup-alpine -f <f>", <<>>, ok) EXCEPT
                    !.data = SetupAlpineInput(Data.RootPasswd)])
        /\ IF ok THEN Return("nil") ELSE Return("err")
    /\ UNCHANGED <<step, Data, fs, pre, loc>>

alpineSetup_run ==
    /\ At("alpineSetup", "run")
    /\ \E ok \in BOOLEAN :
        Emit([Ev("exec", "setup-alpine -f <f>", <<>>, ok) EXCEPT
                !.data = SetupAlpineInput(Data.RootPasswd)])
    /\ Return("nil")
    /\ UNCHANGED <<step, Data, fs, pre, loc>>

---------------------------------------------------------------------------
Next ==
    \/ Call
    \/ setHostname_entry \/ setHostname_hostname \/ setHostname_setup_hostname
    \/ setHostname_open \/ setHostname_write
    \/ mtaSetup_entry \/ mtaSetup_apk_add \/ mtaSetup_render \/ mtaSetup_mv
    \/ diskSetup_entry \/ diskSetup_ps \/ diskSetup_stop \/ diskSetup_mounts
    \/ diskSetup_umount \/ diskSetup_setup_disk \/ diskSetup_start
    \/ diskSetup_swap \/ diskSetup_swapon
    \/ networkSetup_entry \/ networkSetup_pipe \/ networkSetup_write
    \/ networkSetup_close \/ networkSetup_run \/ networkSetup_restart
    \/ proxySetup_entry \/ proxySetup_setup_proxy
    \/ rootPasswdSetup_entry \/ rootPasswdSetup_start \/ rootPasswdSetup_write
    \/ rootPasswdSetup_close \/ rootPasswdSetup_wait
    \/ sshdSetup_entry \/ addSSHKeys_open \/ addSSHKeys_key \/ sshdSetup_restart
    \/ dnsSetup_entry \/ dnsSetup_setup_dns
    \/ ntpSetup_entry \/ ntpSetup_setup_ntp \/ ntpSetup_render \/ ntpSetup_mv
    \/ ntpSetup_restart
    \/ drpSetup_entry \/ drpSetup_download \/ drpSetup_save \/ drpSetup_stat_rc
    \/ drpSetup_render \/ drpSetup_install \/ drpSetup_chmod \/ drpSetup_rc_update
    \/ drpSetup_start
    \/ setupAPK_entry \/ setupAPK_mv \/ setupAPK_update \/ setupAPK_upgrade
    \/ setupAPK_del \/ setupAPK_add
    \/ setMOTD_entry \/ setMOTD_truncate \/ setMOTD_open \/ setMOTD_write
    \/ createFiles_entry \/ createFiles_mkdir \/ createFiles_download
    \/ createFiles_write \/ createFiles_chown
    \/ alpineSetup_entry \/ alpineSetup_run

Spec == Init /\ [][Next]_vars

\* a step of the call that is running
Running == pc # "idle" /\ Next

\* The goroutine that runs a step is scheduled for as long as it can move,
\* and an external operation that has been started comes back.  An operation
\* that blocks is a disabled action, and no fairness moves it.
FairSpec == Spec /\ WF_vars(Running)

---------------------------------------------------------------------------
(* Vocabulary of the properties *)

\* a call of the step has returned
Done == pc = "idle" /\ ret # "none"

IsPrefix(a, b) == Len(a) <= Len(b) /\ a = SubSeq(b, 1, Len(a))

\* a failed operation ends the call: every operation but the last succeeded
OnlyLastFails == \A k \in 1..(Len(calls) - 1) : calls[k].ok

IsExec(e, cmd) == e.op = "exec" /\ e.cmd = cmd
IsService(e, name, action) == e.op = "service" /\ e.cmd = name /\ e.act = action

\* the native commands of the call, each as <<command, arguments>>
Commands ==
    LET ex == SelectSeq(calls, LAMBDA e : e.op = "exec")
    IN  [k \in 1..Len(ex) |-> <<ex[k].cmd, ex[k].args>>]

\* the native commands setupAPK runs for a Packages section, in order
APKPlan(pk) ==
    <<<<"mv <rfile> /etc/apk/repositories", <<>>>>>>
    \o (IF pk.Update THEN <<<<"apk update", <<>>>>>> ELSE <<>>)
    \o (IF pk.Upgrade THEN <<<<"apk upgrade", <<>>>>>> ELSE <<>>)
    \o [k \in 1..Len(pk.Uninstall) |-> <<"apk del", <<pk.Uninstall[k]>>>>]
    \o [k \in 1..Len(pk.Install) |-> <<"apk add", <<pk.Install[k]>>>>]

\* the steps that test their section before anything else
TestingSteps ==
    {"setHostname", "mtaSetup", "diskSetup", "proxySetup", "rootPasswdSetup",
     "dnsSetup", "ntpSetup", "setMOTD", "createFiles"}

\* the section the step depends on is absent or empty
SectionEmpty ==
    CASE step = "setHostname" -> Data.Network.HostName = <<>>
      [] step = "mtaSetup" -> Data.MTA.isNil
      [] step = "diskSetup" -> Data.ScratchDisk = <<>>
      [] step = "networkSetup" -> Data.Network.InterfaceOpts = <<>>
      [] step = "proxySetup" -> Data.Network.Proxy = <<>>
      [] step = "rootPasswdSetup" -> Data.RootPasswd = <<>>
      [] step = "sshdSetup" -> Data.SSHDConfig.AuthorizedKeys = <<>>
      [] step = "dnsSetup" ->
            Data.Network.ResolvConf.isNil \/ Data.Network.ResolvConf.NameServers = <<>>
      [] step = "ntpSetup" ->
            \/ Data.Network.NTP.isNil
            \/ Data.Network.NTP.Pools = <<>> /\ Data.Network.NTP.Servers = <<>>
      [] step = "drpSetup" -> Data.DRP.AssetsURL = <<>>
      [] step = "setupAPK" -> Data.Packages = NoPackages
      [] step = "setMOTD" -> Data.MOTD = <<>>
      [] step = "createFiles" -> Data.WriteFiles = <<>>
      [] OTHER -> FALSE

NoEffect == calls = <<>> /\ fs = pre /\ ret # "err"

\* the text of h before its first ".", all of h when it has none
BeforeFirstDot(h) ==
    LET n == CHOOSE n \in 0..Len(h) :
                /\ \A k \in 1..n : h[k] # "."
                /\ n = Len(h) \/ h[n + 1] = "."
    IN  SubSeq(h, 1, n)

web01_hosts_line ==
    <<"1","2","7",".","0",".","0",".","1","\t",
      "w","e","b","0","1",".","e","x","a","m","p","l","e",".","c","o","m",
      " ","w","e","b","0","1","\n">>

\* what the call did, operation by operation
Trace == [k \in 1..Len(calls) |-> <<calls[k].op, calls[k].cmd, calls[k].act,
                                   calls[k].args, calls[k].path, calls[k].data>>]

---------------------------------------------------------------------------
(* C1.  setupAPK runs its native commands in one fixed order: the move of   *)
(* the rendered repositories file, `apk update` if Update, `apk upgrade` if *)
(* Upgrade, one `apk del p` per entry of Uninstall in list order, one       *)
(* `apk add p` per entry of Install in list order.  A call that fails stops *)
(* inside that order; a call that returns nil ran all of it.  No `apk add`  *)
(* precedes an `apk del`, `apk update` or `apk upgrade`.                    *)

C1_PackageStepOrder ==
    step = "setupAPK" =>
        /\ IsPrefix(Commands, APKPlan(Data.Packages))
        /\ OnlyLastFails
        /\ ret = "nil" => Commands = APKPlan(Data.Packages)
        /\ \A j, k \in 1..Len(Commands) :
              (j < k /\ Commands[j][1] = "apk add")
                  => Commands[k][1] \notin {"apk del", "apk update", "apk upgrade"}

C1_Witness ==
    /\ step = "setupAPK"
    /\ ret = "nil"
    /\ Data.Packages.Update /\ Data.Packages.Upgrade
    /\ Data.Packages.Install = <<<<"a">>, <<"b">>>>
    /\ Data.Packages.Uninstall = <<<<"c">>>>
    /\ Commands = << <<"mv <rfile> /etc/apk/repositories", <<>>>>,
                     <<"apk update", <<>>>>, <<"apk upgrade", <<>>>>,
                     <<"apk del", <<<<"c">>>>>>,
                     <<"apk add", <<<<"a">>>>>>, <<"apk add", <<<<"b">>>>>> >>

---------------------------------------------------------------------------
(* C2.  As claimed: every step whose configuration section is absent or     *)
(* empty performs no external operation, writes no file and returns no      *)
(* error.                                                                   *)

---------------------------------------------------------------------------
(* C3.  setHostname with a non-empty HostName h takes short, the text of h  *)
(* before its first ".", runs `hostname short`, then                        *)
(* `setup-hostname -n short`, then opens /etc/hosts and appends the one     *)
(* line "127.0.0.1\t<h> <short>\n" to it, creating the file when absent.    *)
(* The file changes only after both commands succeeded.  For                *)
(* "web01.example.com" short is "web01" and the line is                     *)
(* "127.0.0.1\tweb01.example.com web01\n".                                  *)

C3_SetHostname ==
    (step = "setHostname" /\ Data.Network.HostName # <<>>) =>
        LET h == Data.Network.HostName
            short == BeforeFirstDot(h)
            line == <<"1","2","7",".","0",".","0",".","1","\t">>
                        \o h \o <<" ">> \o short \o <<"\n">>
            plan == << <<"exec", "hostname", "", <<short>>, "", <<>>>>,
                       <<"exec", "setup-hostname -n", "", <<short>>, "", <<>>>>,
                       <<"open", "", "", <<>>, "/etc/hosts", <<>>>>,
                       <<"write", "", "", <<>>, "/etc/hosts", line>> >>
        IN  /\ IsPrefix(Trace, plan)
            /\ OnlyLastFails
            /\ ret = "nil" =>
                    /\ Trace = plan
                    /\ fs[hostsFile].exists
                    /\ fs[hostsFile].data = pre[hostsFile].data \o line
            /\ ret # "nil" => fs[hostsFile].data = pre[hostsFile].data
            /\ h = web01_example_com => short = web01 /\ line = web01_hosts_line

C3_Witness ==
    /\ step = "setHostname"
    /\ Data.Network.HostName = web01_example_com
    /\ ret = "nil"
    /\ ~pre[hostsFile].exists
    /\ calls[1].args = <<web01>> /\ calls[2].args = <<web01>>
    /\ fs[hostsFile] = File(web01_hosts_line, 420)

---------------------------------------------------------------------------
(* Vocabulary of diskSetup *)

Some(P(_)) == \E k \in 1..Len(calls) : P(calls[k])

IsDockerStop(e) == IsService(e, "docker", "STOP")
IsDockerStart(e) == IsService(e, "docker", "START")
IsSetupDisk(e) == IsExec(e, "setup-disk -q -m data")
IsUmount(e) == IsExec(e, "umount")
IsProbe(e) == e.op = "ps"
Failed(e) == ~e.ok

\* some process of the list has "docker" in its executable name, whatever the case
DockerFound ==
    \E k \in 1..Len(loc.procs) :
        \E j \in 1..Len(loc.procs[k]) :
            /\ j + 5 <= Len(loc.procs[k])
            /\ \E a \in {"d", "D"}, b \in {"o", "O"}, c \in {"c", "C"},
                  d \in {"k", "K"}, e \in {"e", "E"}, f \in {"r", "R"} :
                    SubSeq(loc.procs[k], j, j + 5) = <<a, b, c, d, e, f>>

---------------------------------------------------------------------------
(* C4.  As claimed: whenever diskSetup requested docker STOP and invoked    *)
(* setup-disk, it has requested docker START by the time it returns,        *)
(* whether setup-disk succeeded or failed.                                  *)

C4_DockerRestartedAfterSetupDisk ==
    (step = "diskSetup" /\ Done /\ Some(IsDockerStop) /\ Some(IsSetupDisk))
        => Some(IsDockerStart)

---------------------------------------------------------------------------
(* C5.  In diskSetup, when no process of the list has "docker" in its       *)
(* executable name (in any case), neither docker STOP nor docker START is   *)
(* requested.  STOP is requested only when such a process was found, and    *)
(* then before every umount and before setup-disk.                          *)

C5_DockerOnlyWhenDetected ==
    step = "diskSetup" =>
        /\ ~DockerFound => ~Some(IsDockerStop) /\ ~Some(IsDockerStart)
        /\ \A k \in 1..Len(calls) :
              IsDockerStop(calls[k]) =>
                  /\ DockerFound
                  /\ \A j \in 1..(k - 1) : ~IsUmount(calls[j]) /\ ~IsSetupDisk(calls[j])

\* a run over a list of processes none of which is docker's: setup-disk ran
C5_Witness ==
    /\ step = "diskSetup"
    /\ ret = "nil"
    /\ Len(loc.procs) = 2
    /\ ~DockerFound
    /\ Some(IsSetupDisk) /\ Some(IsUmount)
    /\ ~Some(IsDockerStop) /\ ~Some(IsDockerStart)

---------------------------------------------------------------------------
(* C6.  As claimed: diskSetup with a non-empty ScratchDisk returns an error *)
(* exactly when the setup-disk invocation fails, and nothing prevents       *)
(* setup-disk from being invoked.                                           *)

C6_Original ==
    (step = "diskSetup" /\ Data.ScratchDisk # <<>> /\ Done) =>
        /\ ret = "err" <=> \E k \in 1..Len(calls) : IsSetupDisk(calls[k]) /\ Failed(calls[k])
        /\ Some(IsSetupDisk)

\* C6, amended.  diskSetup with a non-empty ScratchDisk returns an error
\* exactly when the process-list probe fails or the setup-disk invocation
\* fails.  Failures of docker STOP/START, of mount enumeration, of umount, of
\* reading the swap list and of swapon never make it return an error, and
\* once the probe has succeeded none of them prevents setup-disk from being
\* invoked.
C6_OnlyProbeAndSetupDiskFatal ==
    (step = "diskSetup" /\ Data.ScratchDisk # <<>> /\ Done) =>
        /\ ret = "err" <=>
              \E k \in 1..Len(calls) :
                  (IsProbe(calls[k]) \/ IsSetupDisk(calls[k])) /\ Failed(calls[k])
        /\ (\E k \in 1..Len(calls) : IsProbe(calls[k]) /\ calls[k].ok) => Some(IsSetupDisk)

\* a call that returned nil although STOP, an umount, START and swapon failed
C6_Witness ==
    /\ step = "diskSetup"
    /\ ret = "nil"
    /\ \E k \in 1..Len(calls) : IsDockerStop(calls[k]) /\ Failed(calls[k])
    /\ \E k \in 1..Len(calls) : IsUmount(calls[k]) /\ Failed(calls[k])
    /\ \E k \in 1..Len(calls) : IsDockerStart(calls[k]) /\ Failed(calls[k])
    /\ \E k \in 1..Len(calls) : IsExec(calls[k], "swapon -a") /\ Failed(calls[k])

---------------------------------------------------------------------------
(* Vocabulary of sshdSetup *)

IsPatch(e) == e.op = "patch"
IsSshdRestart(e) == IsService(e, "sshd", "RESTART")

SSHDPlan(keys) ==
    << <<"patch", "", "", <<>>, "/etc/ssh/sshd_config", <<>>>> >>
    \o (IF keys = <<>> THEN <<>>
        ELSE << <<"open", "", "", <<>>, "/root/.ssh/authorized_keys", <<>>>> >>
             \o [k \in 1..Len(keys) |->
                    <<"write", "", "", <<>>, "/root/.ssh/authorized_keys", keys[k] \o <<"\n">>>>])
    \o << <<"service", "sshd", "RESTART", <<>>, "", <<>>>> >>

\* the keys, one per line, in list order
RECURSIVE KeyLines(_)
KeyLines(keys) ==
    IF keys = <<>> THEN <<>> ELSE (Head(keys) \o <<"\n">>) \o KeyLines(Tail(keys))

---------------------------------------------------------------------------
(* C7.  As claimed: when the patch of sshd_config and the append of the     *)
(* authorized keys both succeed, sshdSetup returns no error whether or not  *)
(* the sshd RESTART request fails.                                          *)

C7_SshdRestartFailureNotFatal ==
    (/\ step = "sshdSetup"
     /\ Done
     /\ Some(IsSshdRestart)
     /\ \A k \in 1..Len(calls) : ~IsSshdRestart(calls[k]) => calls[k].ok)
        => ret = "nil"

---------------------------------------------------------------------------
(* C8.  sshdSetup performs its sub-steps in the order: patch                *)
(* /etc/ssh/sshd_config, append every configured key, one per line and in   *)
(* list order, to /root/.ssh/authorized_keys, request sshd RESTART.  When    *)
(* the patch fails no key is appended and no restart is requested; when     *)
(* the append fails no restart is requested.                                *)

C8_SshdSubStepOrder ==
    step = "sshdSetup" =>
        LET keys == Data.SSHDConfig.AuthorizedKeys
        IN  /\ IsPrefix(Trace, SSHDPlan(keys))
            /\ OnlyLastFails
            /\ (calls # <<>> /\ ~calls[1].ok) =>
                    /\ Len(calls) = 1
                    /\ fs = pre
                    /\ ret = "err"
            /\ Some(IsSshdRestart) =>
                    /\ \A k \in 1..Len(calls) : ~IsSshdRestart(calls[k]) => calls[k].ok
                    /\ fs[authorizedKeysFile].data =
                            pre[authorizedKeysFile].data \o KeyLines(keys)
            /\ IsPrefix(pre[authorizedKeysFile].data, fs[authorizedKeysFile].data)

C8_Witness ==
    /\ step = "sshdSetup"
    /\ Data.SSHDConfig.AuthorizedKeys = <<keyB, keyA>>
    /\ pre[authorizedKeysFile].exists
    /\ Len(calls) = 5
    /\ IsPatch(calls[1]) /\ IsSshdRestart(calls[5])
    /\ fs[authorizedKeysFile].data =
            pre[authorizedKeysFile].data \o keyB \o <<"\n">> \o keyA \o <<"\n">>

---------------------------------------------------------------------------
(* Vocabulary of createFiles *)

IsWrite(e) == e.op = "write"
IsChown(e) == IsExec(e, "chown")
IsDownload(e) == e.op = "download"

OctalDigits == {"0", "1", "2", "3", "4", "5", "6", "7"}

\* s is a base-8 numeral of 32 bits at most (ten digits always fit)
IsOctal(s) == s # <<>> /\ Len(s) <= 10 /\ \A k \in 1..Len(s) : s[k] \in OctalDigits

OctalDigit(c) ==
    CASE c = "0" -> 0 [] c = "1" -> 1 [] c = "2" -> 2 [] c = "3" -> 3
      [] c = "4" -> 4 [] c = "5" -> 5 [] c = "6" -> 6 [] c = "7" -> 7

\* the value of a base-8 numeral, from its last digit
RECURSIVE OctalValue(_)
OctalValue(s) ==
    IF s = <<>> THEN 0
    ELSE 8 * OctalValue(SubSeq(s, 1, Len(s) - 1)) + OctalDigit(s[Len(s)])

\* descriptor i was written (its write was attempted) and the loop has left it
LeftBehind(i) ==
    /\ \E k \in 1..Len(calls) : IsWrite(calls[k]) /\ calls[k].i = i
    /\ Done \/ loc.i > i

---------------------------------------------------------------------------
(* C9.  As claimed: in createFiles a failed write of descriptor i does not  *)
(* end the call.  The write statement never returns; nothing done for       *)
(* descriptor i after its failed write ends the call either, so the loop    *)
(* goes on to descriptor i+1; a call whose only failures are write failures *)
(* processes every descriptor in order and returns nil.  A failed chown     *)
(* that follows a successful write of the same descriptor ends the call at  *)
(* once with an error: nothing is done after it.                            *)

C9_WriteFailureLenientChownFatal ==
    step = "createFiles" =>
        LET files == Data.WriteFiles
            writes == SelectSeq(calls, IsWrite)
        IN  /\ (/\ Done
                /\ \A i \in 1..Len(files) : IsOctal(files[i].Permissions)
                /\ \A k \in 1..Len(calls) : Failed(calls[k]) => IsWrite(calls[k]))
                   => /\ ret = "nil"
                      /\ Len(writes) = Len(files)
                      /\ \A i \in 1..Len(files) : writes[i].i = i
            /\ (/\ Done /\ ret = "err"
                /\ calls # <<>>
                /\ IsWrite(calls[Len(calls)]) /\ Failed(calls[Len(calls)]))
                   => /\ calls[Len(calls)].i < Len(files)
                      /\ ~IsOctal(files[calls[Len(calls)].i + 1].Permissions)
            /\ \A k \in 1..Len(calls) :
                  (IsWrite(calls[k]) /\ Failed(calls[k])) =>
                      \A j \in (k + 1)..Len(calls) :
                          calls[j].i = calls[k].i => calls[j].ok
            /\ \A k \in 1..Len(calls) :
                  (/\ IsChown(calls[k]) /\ Failed(calls[k])
                   /\ k > 1 /\ IsWrite(calls[k - 1]) /\ calls[k - 1].ok
                   /\ calls[k - 1].i = calls[k].i)
                     => k = Len(calls) /\ Done /\ ret = "err"

---------------------------------------------------------------------------
(* C10.  As claimed: in createFiles a descriptor with non-empty inline      *)
(* Content c and a Permissions string that is the octal numeral of m is     *)
(* written by one write of exactly the bytes c with permission bits m to    *)
(* its Path, with no download; after a successful write the file at Path    *)
(* holds exactly c and has mode m.  "hello" and "644" give the bytes        *)
(* "hello" and mode 0644 (420).  Of the descriptors the loop has written    *)
(* and left, chown is run for exactly those whose Owner is non-empty; it is *)
(* never run for a descriptor with an empty Owner.                          *)

C10_InlineContentWritten ==
    step = "createFiles" =>
        LET files == Data.WriteFiles
        IN  /\ \A k \in 1..Len(calls) :
                  IsWrite(calls[k]) =>
                      LET d == files[calls[k].i]
                      IN  /\ calls[k].path = d.Path
                          /\ calls[k].mode = OctalValue(d.Permissions)
                          /\ d.Content # <<>> =>
                                /\ calls[k].data = d.Content
                                /\ \A j \in 1..Len(calls) :
                                      IsDownload(calls[j]) => calls[j].i # calls[k].i
                          /\ calls[k].ok =>
                                /\ fs[d.Path].exists
                                /\ fs[d.Path].data = calls[k].data
                                /\ fs[d.Path].mode = OctalValue(d.Permissions)
                          /\ (d.Content = hello /\ d.Permissions = <<"6","4","4">>) =>
                                /\ calls[k].data = <<"h","e","l","l","o">>
                                /\ calls[k].mode = 420
            /\ \A i \in 1..Len(files) :
                  /\ (\E k \in 1..Len(calls) : IsChown(calls[k]) /\ calls[k].i = i)
                        => files[i].Owner # <<>>
                  /\ (LeftBehind(i) /\ files[i].Owner # <<>>)
                        => \E k \in 1..Len(calls) :
                              /\ IsChown(calls[k]) /\ calls[k].i = i
                              /\ calls[k].args = <<files[i].Owner>>
                              /\ calls[k].path = files[i].Path

---------------------------------------------------------------------------
(* Vocabulary of rootPasswdSetup *)

IsChpasswdStart(e) == IsExec(e, "chpasswd (Start)")
IsChpasswdWait(e) == IsExec(e, "chpasswd (Wait)")
IsPipeWrite(e) == e.op = "pipe" /\ e.cmd = "Write"
IsPipeClose(e) == e.op = "pipe" /\ e.cmd = "Close"

\* what rootPasswdSetup does with a password, in order
ChpasswdPlan(passwd) ==
    << <<"exec", "chpasswd (Start)", "", <<>>, "", <<>>>>,
       <<"pipe", "Write", "", <<>>, "", <<"r","o","o","t",":">> \o passwd \o <<"\n">>>>,
       <<"pipe", "Close", "", <<>>, "", <<>>>>,
       <<"exec", "chpasswd (Wait)", "", <<>>, "", <<>>>> >>

---------------------------------------------------------------------------
(* C11.  rootPasswdSetup with a non-empty RootPasswd orders its events:     *)
(* chpasswd is started, the whole line "root:<password>\n" is written to    *)
(* the pipe, the writer is closed only after that write has completed, and  *)
(* the step then waits for chpasswd to exit.  It never returns before the   *)
(* wait has ended, returns nil only when the wait reported success, and     *)
(* returns an error when the wait reported a failure.                       *)

C11_ChpasswdEventOrder ==
    (step = "rootPasswdSetup" /\ Data.RootPasswd # <<>>) =>
        /\ IsPrefix(Trace, ChpasswdPlan(Data.RootPasswd))
        /\ \A k \in 1..Len(calls) : IsPipeWrite(calls[k]) => calls[k - 1].ok
        /\ ret # "none" =>
              /\ Len(calls) = 4
              /\ ret = "nil" <=> calls[4].ok
              /\ ret = "err" <=> Failed(calls[4])

C11_Witness ==
    /\ step = "rootPasswdSetup"
    /\ Data.RootPasswd = secret
    /\ ret = "err"
    /\ Len(calls) = 4
    /\ calls[1].ok
    /\ calls[2].data = <<"r","o","o","t",":","s","3","c","r","e","t","\n">>
    /\ IsPipeClose(calls[3])
    /\ IsChpasswdWait(calls[4]) /\ Failed(calls[4])

---------------------------------------------------------------------------
(* Vocabulary of drpSetup *)

IsDrpDownload(e) == e.op = "download" /\ e.cmd = "downloadFile"
IsDrpSave(e) == IsWrite(e) /\ e.path = "/usr/local/bin/drpcli"
IsRcRender(e) == e.op = "render" /\ e.cmd = "drpcliInit"
IsRcInstall(e) ==
    \/ IsExec(e, "mv <rcfile> /etc/init.d/drpcli")
    \/ IsExec(e, "cp <rcfile> /etc/init.d/drpcli")
IsRcChmod(e) == IsExec(e, "chmod +x /etc/init.d/drpcli")
IsRcUpdate(e) == IsExec(e, "rc-update add drpcli")
IsDrpStart(e) == IsService(e, "drpcli", "START")

\* the binary is fetched and saved only by a run that found it absent
BinaryOnlyWhileAbsent ==
    (Some(IsDrpDownload) \/ Some(IsDrpSave)) => ~pre["/usr/local/bin/drpcli"].exists

\* the rc file is installed and registered only by a run that found it absent
RcOnlyWhileAbsent ==
    (Some(IsRcRender) \/ Some(IsRcInstall) \/ Some(IsRcChmod) \/ Some(IsRcUpdate))
        => ~pre["/etc/init.d/drpcli"].exists

---------------------------------------------------------------------------
(* C12.  As claimed: over any sequence of drpSetup runs the binary is       *)
(* downloaded and written to /usr/local/bin/drpcli only by a run that found *)
(* it absent, the rc file is installed and `rc-update add drpcli` is run    *)
(* only by a run that found /etc/init.d/drpcli absent, and a run that found *)
(* both files in place does not request the drpcli START again.             *)

C12_AgentStartedOnce ==
    step = "drpSetup" =>
        /\ BinaryOnlyWhileAbsent
        /\ RcOnlyWhileAbsent
        /\ (pre["/usr/local/bin/drpcli"].exists /\ pre["/etc/init.d/drpcli"].exists)
              => ~Some(IsDrpStart)

---------------------------------------------------------------------------
(* Vocabulary of re-runs *)

\* the call just finished is a re-run: it and every call before it returned
\* nil with every one of their operations succeeding
CleanRerun ==
    /\ runs >= 2
    /\ Done
    /\ clean
    /\ ret = "nil"
    /\ \A k \in 1..Len(calls) : calls[k].ok

\* the re-run left every file with the content it had after the run before it
SameContent == \A p \in Paths : fs[p].exists = pre[p].exists /\ fs[p].data = pre[p].data

---------------------------------------------------------------------------
(* C13.  As claimed: every step but setHostname is safe to run twice.  When *)
(* all its operations succeed in both runs, the second run leaves every     *)
(* file (/root/.ssh/authorized_keys, /etc/motd, /etc/apk/repositories, the  *)
(* WriteFiles targets and the others) with the content it had after the     *)
(* first run; only setHostname duplicates its line of /etc/hosts.           *)

C13_StepsSafeToRunTwice ==
    CleanRerun =>
        IF step = "setHostname" /\ Data.Network.HostName # <<>>
        THEN fs["/etc/hosts"].data # pre["/etc/hosts"].data
        ELSE SameContent

---------------------------------------------------------------------------
(* Vocabulary of failures *)

IsRender(e) == e.op = "render"

\* the move or copy of a rendered file into its destination
IsPlacement(e) ==
    \/ IsExec(e, "mv <ssmtp> /etc/ssmtp/ssmtp.conf")
    \/ IsExec(e, "mv <chrony> /etc/chrony/chrony.conf")
    \/ IsExec(e, "mv <rfile> /etc/apk/repositories")
    \/ IsRcInstall(e)

\* the operations whose failure the steps log or drop: everything of diskSetup
\* but the process probe and setup-disk, the restarts of networking and
\* chronyd, the start of drpcli, the write of a WriteFiles descriptor, the
\* write to the stdin pipe of setup-interfaces, the start of chpasswd and
\* the run of setup-alpine
BestEffort(e) ==
    \/ step = "diskSetup" /\ ~IsProbe(e) /\ ~IsSetupDisk(e)
    \/ IsService(e, "networking", "RESTART")
    \/ IsService(e, "chronyd", "RESTART")
    \/ IsDrpStart(e)
    \/ step = "createFiles" /\ IsWrite(e)
    \/ step = "networkSetup" /\ e.op = "pipe" /\ e.cmd = "WriteString"
    \/ IsChpasswdStart(e)
    \/ IsExec(e, "setup-alpine -f <f>")

IsFatalFailure(e) == Failed(e) /\ ~BestEffort(e)

---------------------------------------------------------------------------
(* C14.  In every step the first fatal failure (of a native command, of a   *)
(* template render, of a file open or write the step does not merely log)   *)
(* is the last thing the call does: the call returns an error with it, no   *)
(* operation follows it, so the failed command is run once and not again.   *)
(* A call returns an error only on such a failure (or, in createFiles, on   *)
(* a Permissions string that does not parse).  In mtaSetup, ntpSetup,       *)
(* setupAPK and drpSetup a failed render means no mv/cp into the            *)
(* destination is run.                                                      *)

C14_FirstFatalFailureReturned ==
    /\ \A k \in 1..Len(calls) :
          IsFatalFailure(calls[k]) => k = Len(calls) /\ Done /\ ret = "err"
    /\ (Done /\ ret = "err") =>
          \/ calls # <<>> /\ IsFatalFailure(calls[Len(calls)])
          \/ /\ step = "createFiles"
             /\ LET n == IF calls = <<>> THEN 0 ELSE calls[Len(calls)].i
                IN  n < Len(Data.WriteFiles) /\ ~IsOctal(Data.WriteFiles[n + 1].Permissions)
    /\ (\E k \in 1..Len(calls) : IsRender(calls[k]) /\ Failed(calls[k]))
          => ~Some(IsPlacement)

\* mtaSetup: ssmtp installed, the render failed, the call returned the error
C14_Witness ==
    /\ step = "mtaSetup"
    /\ ret = "err"
    /\ Len(calls) = 2
    /\ IsExec(calls[1], "apk add ssmtp") /\ calls[1].ok
    /\ IsRender(calls[2]) /\ Failed(calls[2])
    /\ fs = pre

---------------------------------------------------------------------------
(* Vocabulary of createFiles, continued *)

IsMkdir(e) == e.op = "mkdir"

\* the first descriptor whose Permissions is no octal numeral; 0 when all are
FirstBadPerm ==
    LET bad == {i \in 1..Len(Data.WriteFiles) : ~IsOctal(Data.WriteFiles[i].Permissions)}
    IN  IF bad = {} THEN 0 ELSE CHOOSE i \in bad : \A j \in bad : i <= j

---------------------------------------------------------------------------
(* C15.  In createFiles a Permissions string that is no base-8 numeral, a   *)
(* failed creation of the parent directories or a failed download for       *)
(* descriptor i ends the call at once with an error: the file of            *)
(* descriptor i is not written, no chown is run for it, no descriptor       *)
(* after i is processed, and the files written for the descriptors before   *)
(* i keep the content written.                                              *)

C15_EarlyFailuresAbort ==
    step = "createFiles" =>
        LET files == Data.WriteFiles
        IN  /\ \A k \in 1..Len(calls) :
                  ((IsMkdir(calls[k]) \/ IsDownload(calls[k])) /\ Failed(calls[k])) =>
                      /\ k = Len(calls) /\ Done /\ ret = "err"
                      /\ \A j \in 1..Len(calls) :
                            /\ calls[j].i <= calls[k].i
                            /\ calls[j].i = calls[k].i =>
                                  ~IsWrite(calls[j]) /\ ~IsChown(calls[j])
                      /\ fs[files[calls[k].i].Path] = pre[files[calls[k].i].Path]
            /\ FirstBadPerm # 0 =>
                  /\ \A k \in 1..Len(calls) : calls[k].i < FirstBadPerm
                  /\ fs[files[FirstBadPerm].Path] = pre[files[FirstBadPerm].Path]
                  /\ Done => ret = "err"
            /\ \A k \in 1..Len(calls) :
                  (IsWrite(calls[k]) /\ calls[k].ok) =>
                      fs[files[calls[k].i].Path].data = calls[k].data

\* the first file written, the download for the second failed
C15_Witness ==
    /\ step = "createFiles"
    /\ ret = "err"
    /\ Len(Data.WriteFiles) = 2
    /\ Data.WriteFiles[1].Content = hello
    /\ fs["/srv/a"].data = hello /\ pre["/srv/a"].data # hello
    /\ IsDownload(calls[Len(calls)]) /\ Failed(calls[Len(calls)])
    /\ calls[Len(calls)].i = 2
    /\ fs["/srv/b"] = pre["/srv/b"]

---------------------------------------------------------------------------
(* Vocabulary of alpineSetup *)

IsSetupAlpine(e) == IsExec(e, "setup-alpine -f <f>")

---------------------------------------------------------------------------
(* C16.  alpineSetup returns an error exactly when the render of the        *)
(* answer file fails, and then runs nothing.  When the render succeeds it   *)
(* runs `setup-alpine -f <answerfile>` exactly once, with the root password *)
(* twice on stdin, one per line, and returns nil whatever setup-alpine's    *)
(* exit status.                                                             *)

C16_AlpineSetupIgnoresExitStatus ==
    step = "alpineSetup" =>
        /\ Len(calls) <= 2
        /\ calls # <<>> => IsRender(calls[1]) /\ calls[1].cmd = "answerFile"
        /\ Len(calls) = 2 =>
              /\ calls[1].ok
              /\ IsSetupAlpine(calls[2])
              /\ calls[2].data =
                    Data.RootPasswd \o <<"\n">> \o Data.RootPasswd \o <<"\n">>
        /\ Done =>
              /\ ret = "err" <=> Failed(calls[1])
              /\ ret = "nil" <=> Len(calls) = 2
              /\ Failed(calls[1]) => Len(calls) = 1

\* setup-alpine exited non-zero and alpineSetup returned nil
C16_Witness ==
    /\ step = "alpineSetup"
    /\ ret = "nil"
    /\ Len(calls) = 2
    /\ IsSetupAlpine(calls[2]) /\ Failed(calls[2])
    /\ calls[2].data = <<"s","3","c","r","e","t","\n","s","3","c","r","e","t","\n">>

---------------------------------------------------------------------------
(* C17.  As claimed: rootPasswdSetup always terminates.  Whatever the       *)
(* outcome of starting chpasswd (started and reads its stdin, started and   *)
(* exits without reading, not started), the write on the in-process pipe    *)
(* completes and the call that was entered returns.                         *)

C17_RootPasswdSetupTerminates ==
    (step = "rootPasswdSetup" /\ pc = "entry") ~> (pc = "idle")

---------------------------------------------------------------------------
(* Vocabulary of the agent's installation *)

\* the owner may execute a file of this mode
Executable(mode) == (mode \div 64) % 2 = 1

\* the host had neither the binary nor the rc file before the first call
AgentAbsentAtFirst ==
    ~fs0["/usr/local/bin/drpcli"].exists /\ ~fs0["/etc/init.d/drpcli"].exists

---------------------------------------------------------------------------
(* C18.  As claimed: on a host that had neither /usr/local/bin/drpcli nor   *)
(* /etc/init.d/drpcli, after any sequence of drpSetup runs, whenever a run  *)
(* returns nil the binary is completely written, the rc file is executable  *)
(* and `rc-update add drpcli` has succeeded in that run or an earlier one.  *)

C18_NilMeansAgentInstalled ==
    (step = "drpSetup" /\ AgentAbsentAtFirst /\ Done /\ ret = "nil") =>
        /\ fs["/usr/local/bin/drpcli"].exists
        /\ fs["/usr/local/bin/drpcli"].data = blob
        /\ fs["/etc/init.d/drpcli"].exists
        /\ Executable(fs["/etc/init.d/drpcli"].mode)
        /\ fs["/etc/runlevels/default/drpcli"].exists

---------------------------------------------------------------------------
(* C19.  As claimed: in createFiles the chown of a descriptor's Path is run *)
(* only after the write of that same descriptor has succeeded; after a      *)
(* failed write of a descriptor with an Owner no chown is run for it.       *)

C19_ChownOnlyAfterSuccessfulWrite ==
    step = "createFiles" =>
        \A k \in 1..Len(calls) :
            IsChown(calls[k]) =>
                /\ k > 1
                /\ IsWrite(calls[k - 1])
                /\ calls[k - 1].i = calls[k].i
                /\ calls[k - 1].ok

---------------------------------------------------------------------------
(* C20.  As claimed: networkSetup always terminates.  For every length of   *)
(* InterfaceOpts, those above the capacity of the pipe's buffer included,   *)
(* the write to the stdin pipe of `setup-interfaces -i` completes and the   *)
(* call that was entered returns.                                           *)

C20_NetworkSetupTerminates ==
    (step = "networkSetup" /\ pc = "entry") ~> (pc = "idle")

=============================================================================
